---- MODULE Spec2Model ----
(***************************************************************************)
(* A model of the escher renderer: the scene cache hierarchy of            *)
(* src/src/scene.rs and src/src/camera.rs (Scene -> Group -> Object ->     *)
(* Instance, each level an Option that is None when stale) and the frame   *)
(* loop of src/src/engine.rs (Engine::run).                                *)
(*                                                                         *)
(* Conventions.  An Option<T> is a sequence of length at most one.  A      *)
(* HashMap<String, T> is a function whose domain is the set of keys.  A    *)
(* sub-buffer of a CpuBufferPool, a list of primary command buffers, a     *)
(* swapchain and a fence are identified by an id; a new one takes the      *)
(* least id that no live reference holds.  A pipeline is identified by     *)
(* what it was created from (the shaders and render pass never change, so  *)
(* by its viewport).  Angles are counted in quarter turns so that sines    *)
(* and cosines are integers, and all coordinates are integers.  A panic    *)
(* or an exit ends the process: the model moves to one final state.        *)
(***************************************************************************)
EXTENDS Integers, Sequences, FiniteSets, TLC

VARIABLES
    scene,              \* Engine.scene : Scene
    camera_handle,      \* the &mut Camera that Scene::get_camera returned is alive
    last,               \* instrumentation: what the last call rebuilt and returned
    camera_changed,     \* instrumentation: Camera::update ran since the last build
    panicked,           \* an unwrap() or panic!() fired: the process has aborted
    viewport,           \* Engine.viewport.dimensions
    swapchain,          \* Engine.swapchain
    images,             \* Engine.images, the images Swapchain::new returned
    depth_buffer,       \* Engine.depth_buffer
    framebuffers,       \* Engine.framebuffers, indexed by image index from 0
    window_size,        \* surface.window().inner_size()
    window_resized,     \* Engine::run locals
    recreate_swapchain,
    fences,
    previous_fence_i,
    in_flight,          \* submissions the queue has not completed yet
    exited,             \* ControlFlow::Exit was set
    tick,               \* instrumentation: what the last loop iteration did
    events              \* instrumentation: how many events the loop has handled

scene_vars == <<scene, camera_handle, last, camera_changed>>
engine_vars == <<viewport, swapchain, images, depth_buffer, framebuffers, window_size,
                 window_resized,
                 recreate_swapchain, fences, previous_fence_i, in_flight, exited, tick,
                 events>>
vars == <<scene_vars, panicked, engine_vars>>

----------------------------------------------------------------------------
(* Bounds and input sets *)

GroupNames == {"basic", "extra"}
ObjectNames == {"cube", "quad"}
InstanceNames == {"0", "1"}

\* at most this many objects / instances are registered in the whole scene
MaxObjects == 2
MaxInstances == 2
\* number of swapchain images (presentation targets)
NumTargets == 2
\* the event loop is followed for this many events
MaxEvents == 4

\* the closures handed to Instance::update (by name) and to Camera::update
InstanceMutators == {"noop", "place"}
CameraMutators == {[name |-> "noop"], [name |-> "back"]}

----------------------------------------------------------------------------
(* Option and HashMap *)

None == <<>>
Some(x) == <<x>>
IsNone(o) == Len(o) = 0
IsSome(o) == Len(o) = 1
Unwrap(o) == o[1]
\* the option's content as a set
Iter(o) == {o[k] : k \in DOMAIN o}

EmptyMap == [k \in {} |-> None]
\* a lookup that hands out some registered entry when the name is not registered
GetMutAny(m, id) ==
    IF id \in DOMAIN m THEN Some(m[id])
    ELSE IF DOMAIN m = {} THEN None ELSE Some(m[CHOOSE k \in DOMAIN m : TRUE])
\* HashMap::get_mut: the entry registered under id, if there is one
GetMut(m, id) == IF id \in DOMAIN m THEN Some(m[id]) ELSE None
\* variant of HashMap::insert that keeps the entry a key already has
InsertIfAbsent(m, k, v) == [x \in (DOMAIN m) \cup {k} |-> IF x \in DOMAIN m THEN m[x] ELSE v]
Insert(m, k, v) == [x \in (DOMAIN m) \cup {k} |-> IF x = k THEN v ELSE m[x]]
Values(m) == {m[k] : k \in DOMAIN m}

Min(S) == CHOOSE n \in S : \A m \in S : n <= m
RECURSIVE GCD(_, _)
GCD(a, b) == IF b = 0 THEN a ELSE GCD(b, a % b)
\* the quotient w / h, as a fraction in lowest terms
Ratio(w, h) == <<w \div GCD(w, h), h \div GCD(w, h)>>
\* the least id that is not in `used`
FreshId(used) == Min({n \in 0..Cardinality(used) : n \notin used})

----------------------------------------------------------------------------
(* nalgebra: Vector3, Matrix4 (row major), angles in quarter turns *)

Cos4(k) == CASE k % 4 = 0 -> 1 [] k % 4 = 1 -> 0 [] k % 4 = 2 -> -1 [] OTHER -> 0
Sin4(k) == CASE k % 4 = 0 -> 0 [] k % 4 = 1 -> 1 [] k % 4 = 2 -> 0 [] OTHER -> -1

Identity4 ==
    << <<1, 0, 0, 0>>, <<0, 1, 0, 0>>, <<0, 0, 1, 0>>, <<0, 0, 0, 1>> >>

MatEntry(a, b, i, j) ==
    a[i][1] * b[1][j] + a[i][2] * b[2][j] + a[i][3] * b[3][j] + a[i][4] * b[4][j]
MatRow(a, b, i) ==
    <<MatEntry(a, b, i, 1), MatEntry(a, b, i, 2), MatEntry(a, b, i, 3), MatEntry(a, b, i, 4)>>
MatMul(a, b) == <<MatRow(a, b, 1), MatRow(a, b, 2), MatRow(a, b, 3), MatRow(a, b, 4)>>

\* the matrix applied to the homogeneous point (p, 1)
PointEntry(m, p, i) == m[i][1] * p[1] + m[i][2] * p[2] + m[i][3] * p[3] + m[i][4]
TransformPoint(m, p) == <<PointEntry(m, p, 1), PointEntry(m, p, 2), PointEntry(m, p, 3)>>

NewTranslation(v) ==
    << <<1, 0, 0, v[1]>>, <<0, 1, 0, v[2]>>, <<0, 0, 1, v[3]>>, <<0, 0, 0, 1>> >>

NewScaling(s) ==
    << <<s, 0, 0, 0>>, <<0, s, 0, 0>>, <<0, 0, s, 0>>, <<0, 0, 0, 1>> >>

\* new_rotation(Vector3::new(k, 0, 0)), (0, k, 0), (0, 0, k)
RotationX(k) ==
    << <<1, 0, 0, 0>>, <<0, Cos4(k), -Sin4(k), 0>>, <<0, Sin4(k), Cos4(k), 0>>, <<0, 0, 0, 1>> >>
RotationY(k) ==
    << <<Cos4(k), 0, Sin4(k), 0>>, <<0, 1, 0, 0>>, <<-Sin4(k), 0, Cos4(k), 0>>, <<0, 0, 0, 1>> >>
RotationZ(k) ==
    << <<Cos4(k), -Sin4(k), 0, 0>>, <<Sin4(k), Cos4(k), 0, 0>>, <<0, 0, 1, 0>>, <<0, 0, 0, 1>> >>

----------------------------------------------------------------------------
(* scene.rs: Instance *)

InstanceDefault ==
    [position |-> <<0, 0, 0>>, angle |-> <<0, 0, 0>>, scale |-> 1, model |-> Identity4]

\* the closures handed to Instance::update
ApplyInstanceMutator(f, i) ==
    CASE f = "place" -> [i EXCEPT !.position = <<1, 2, 3>>, !.angle = <<0, 0, 0>>, !.scale = 2]
      [] f = "turn"  -> [i EXCEPT !.angle = <<1 - i.angle[1], 0, 0>>]
      [] OTHER       -> i

\* variant of the product with the scaling applied last
ModelMatrixScaleLast(position, angle, scale) ==
    MatMul(NewScaling(scale),
      MatMul(NewTranslation(position),
        MatMul(RotationX(angle[1]),
          MatMul(RotationY(angle[2]), RotationZ(angle[3])))))

\* Instance::update: translation * rotation x * rotation y * rotation z * scaling
ModelMatrix(position, angle, scale) ==
    MatMul(NewTranslation(position),
      MatMul(RotationX(angle[1]),
        MatMul(RotationY(angle[2]),
          MatMul(RotationZ(angle[3]), NewScaling(scale)))))

InstanceUpdate(i, f) ==
    LET w == ApplyInstanceMutator(f, i)
    IN  [w EXCEPT !.model = ModelMatrix(w.position, w.angle, w.scale)]

----------------------------------------------------------------------------
(* camera.rs *)

CameraConfigurationDefault ==
    [position |-> <<0, 0, 0>>, angle |-> <<0, 0, 0>>,
     aspect |-> <<1, 1>>,        \* a ratio: numerator, denominator
     fov_y |-> 45, z_near |-> <<1, 100>>, z_far |-> 100]

\* CameraData::BASE_MATRIX, entries in halves
BASE_MATRIX ==
    << <<2, 0, 0, 0>>, <<0, 2, 0, 0>>, <<0, 0, -1, 1>>, <<0, 0, 0, -2>> >>

\* CameraData::new: look_at_lh and new_perspective are kept as their arguments
CameraDataNew(c) ==
    LET rot == MatMul(RotationZ(c.angle[3]),
                 MatMul(RotationY(c.angle[2]), RotationX(c.angle[1])))
        fwd == TransformPoint(rot, <<0, 0, 1>>)
        target == <<fwd[1] + c.position[1], fwd[2] + c.position[2], fwd[3] + c.position[3]>>
    IN  [view |-> [eye |-> c.position, target |-> target, up |-> <<0, 1, 0>>],
         projection |-> [base |-> BASE_MATRIX, aspect |-> c.aspect, fov_y |-> c.fov_y,
                         z_near |-> c.z_near, z_far |-> c.z_far]]

\* the closures handed to Camera::update
ApplyCameraMutator(f, c) ==
    CASE f.name = "back"   -> [c EXCEPT !.position = <<0, 0, -2>>]
      [] f.name = "yaw"    -> [c EXCEPT !.angle = <<0, 1 - c.angle[2], 0>>]
      [] f.name = "aspect" -> [c EXCEPT !.aspect = f.value]
      [] OTHER             -> c

CameraNew == [configuration |-> CameraConfigurationDefault, subbuffer |-> None]

CameraInvalidate(cam) == [cam EXCEPT !.subbuffer = None]

\* variant of the payload rebuild that writes into the pool's first sub-buffer
CameraSubbufferInPlace(cam, used) ==
    IF IsNone(cam.subbuffer)
    THEN [cam EXCEPT !.subbuffer =
            Some([id |-> 0, data |-> CameraDataNew(cam.configuration)])]
    ELSE cam

\* Camera::subbuffer; `used` are the pool's sub-buffers still referenced
CameraSubbuffer(cam, used) ==
    IF IsNone(cam.subbuffer)
    THEN [cam EXCEPT !.subbuffer =
            Some([id |-> FreshId(used), data |-> CameraDataNew(cam.configuration)])]
    ELSE cam

\* variants of Camera::update: one that refills the cache at once, one that
\* marks the cache stale only when the closure changed something
CameraUpdateEager(cam, f) ==
    [cam EXCEPT !.configuration = ApplyCameraMutator(f, cam.configuration),
                !.subbuffer = Some([id |-> 0,
                                    data |-> CameraDataNew(ApplyCameraMutator(f, cam.configuration))])]
CameraUpdateIfChanged(cam, f) ==
    IF ApplyCameraMutator(f, cam.configuration) = cam.configuration
    THEN cam
    ELSE [cam EXCEPT !.configuration = ApplyCameraMutator(f, cam.configuration),
                     !.subbuffer = None]

CameraUpdate(cam, f) ==
    LET c == CameraInvalidate(cam)
    IN  [c EXCEPT !.configuration = ApplyCameraMutator(f, c.configuration)]

----------------------------------------------------------------------------
(* scene.rs: Object *)

ObjectNew == [instances |-> EmptyMap, command_buffer |-> None]

\* instance_buffer.from_iter(instances.clone().into_values()): the values
\* without their keys, in no particular order (value |-> multiplicity)
InstanceData(instances) ==
    [v \in Values(instances) |-> Cardinality({k \in DOMAIN instances : instances[k] = v})]

\* variant of the recording whose draw call never draws fewer than one instance
RecordBatchAtLeastOne(obj, pipeline, camera_buffer, used) ==
    [instance_buffer |-> [id |-> FreshId(used), data |-> InstanceData(obj.instances)],
     instance_count |-> IF DOMAIN obj.instances = {} THEN 1 ELSE Cardinality(DOMAIN obj.instances),
     pipeline |-> pipeline,
     camera_buffer |-> camera_buffer]

\* the draw batch recorded for the object as it is now; `used` are the
\* sub-buffers of the object's instance pool that are still referenced
RecordBatch(obj, pipeline, camera_buffer, used) ==
    [instance_buffer |-> [id |-> FreshId(used), data |-> InstanceData(obj.instances)],
     instance_count |-> Cardinality(DOMAIN obj.instances),
     pipeline |-> pipeline,
     camera_buffer |-> camera_buffer]

\* the sub-buffer the object's own cache references
OwnInstanceBuffers(obj) ==
    {obj.command_buffer[i].instance_buffer.id : i \in DOMAIN obj.command_buffer}

\* variant of Object::command_buffer without the cache check
ObjectCommandBufferAlways(obj, pipeline, camera_buffer, used) ==
    [obj EXCEPT !.command_buffer =
        Some(RecordBatch(obj, pipeline, camera_buffer, used \cup OwnInstanceBuffers(obj)))]

\* Object::command_buffer: the batch is recorded only when the cache is empty
ObjectCommandBuffer(obj, pipeline, camera_buffer, used) ==
    IF IsNone(obj.command_buffer)
    THEN [obj EXCEPT !.command_buffer =
            Some(RecordBatch(obj, pipeline, camera_buffer, used \cup OwnInstanceBuffers(obj)))]
    ELSE obj

ObjectInvalidate(obj) == [obj EXCEPT !.command_buffer = None]

\* variant of Object::get_instance that keeps the cached batch
ObjectGetInstanceKeep(obj, id) == obj

\* Object::get_instance up to the lookup: the handle is instances[id]
ObjectGetInstance(obj, id) == ObjectInvalidate(obj)

ObjectCreateInstance(obj, id) ==
    ObjectGetInstance([obj EXCEPT !.instances = Insert(@, id, InstanceDefault)], id)

----------------------------------------------------------------------------
(* scene.rs: Group *)

\* Group::create_pipeline: the pipeline built for the viewport
CreatePipeline(vp) == [viewport |-> vp]

GroupNew(vp) == [objects |-> EmptyMap, pipeline |-> CreatePipeline(vp)]

\* variant of Group::recreate_pipeline that also drops the objects' batches
GroupRecreatePipelineInvalidating(group, vp) ==
    [objects |-> [o \in DOMAIN group.objects |-> ObjectInvalidate(group.objects[o])],
     pipeline |-> CreatePipeline(vp)]

GroupRecreatePipeline(group, vp) == [group EXCEPT !.pipeline = CreatePipeline(vp)]

\* `used[o]` are the sub-buffers of o's instance pool still referenced elsewhere
GroupCommandBuffers(group, camera_buffer, used) ==
    [group EXCEPT !.objects =
        [o \in DOMAIN @ |->
            ObjectCommandBuffer(@[o], group.pipeline, camera_buffer, used[o])]]

\* the Vec<Arc<SecondaryAutoCommandBuffer>> that Group::command_buffers returns,
\* keyed by object name (the HashMap's iteration order is not modelled)
GroupBatches(group) ==
    [o \in DOMAIN group.objects |-> Unwrap(group.objects[o].command_buffer)]

GroupCreateObject(group, id) == [group EXCEPT !.objects = Insert(@, id, ObjectNew)]

\* variant of Group::invalidate that keeps the objects' batches
GroupInvalidateNone(group) == group

GroupInvalidate(group) ==
    [group EXCEPT !.objects = [o \in DOMAIN @ |-> ObjectInvalidate(@[o])]]

----------------------------------------------------------------------------
(* scene.rs: Scene *)

SceneNew == [groups |-> EmptyMap, camera |-> CameraNew, command_buffers |-> None]

\* every (group, object) pair registered in the scene
AllObjects(s) ==
    {p \in GroupNames \X ObjectNames :
        p[1] \in DOMAIN s.groups /\ p[2] \in DOMAIN s.groups[p[1]].objects}
ObjectAt(s, p) == s.groups[p[1]].objects[p[2]]
ValidObjects(s) == {p \in AllObjects(s) : IsSome(ObjectAt(s, p).command_buffer)}
StaleObjects(s) == AllObjects(s) \ ValidObjects(s)
InstanceCount(s) ==
    Cardinality({q \in GroupNames \X ObjectNames \X InstanceNames :
        /\ <<q[1], q[2]>> \in AllObjects(s)
        /\ q[3] \in DOMAIN ObjectAt(s, <<q[1], q[2]>>).instances})

\* the draw batches a primary command buffer executes
PrimaryBatches(cb) == UNION {Values(cb.secondary[g]) : g \in DOMAIN cb.secondary}
\* the draw batches a cached list of primary command buffers refers to
ListBatches(cbs) ==
    IF IsNone(cbs) THEN {}
    ELSE UNION {PrimaryBatches(Unwrap(cbs)[k]) : k \in DOMAIN Unwrap(cbs)}
\* the draw batches alive in the scene's caches
SceneBatches(s) ==
    {Unwrap(ObjectAt(s, p).command_buffer) : p \in ValidObjects(s)}
        \cup ListBatches(s.command_buffers)

\* Live references; `held` are the primary command buffers that the queue
\* still holds.  Into the camera's buffer pool:
UsedCameraBuffers(s, held) ==
    {b.camera_buffer.id : b \in SceneBatches(s) \cup UNION {PrimaryBatches(w) : w \in held}}
        \cup {s.camera.subbuffer[i].id : i \in DOMAIN s.camera.subbuffer}
\* into the instance pool of object o of group g, from outside the object:
UsedInstanceBuffers(s, held, g, o) ==
    {w.secondary[g][o].instance_buffer.id :
        w \in {v \in held \cup {Unwrap(s.command_buffers)[k] : k \in
                    IF IsNone(s.command_buffers) THEN {} ELSE DOMAIN Unwrap(s.command_buffers)} :
                g \in DOMAIN v.secondary /\ o \in DOMAIN v.secondary[g]}}
\* to primary command buffers, by the build that recorded them:
UsedPrimaries(s, held) ==
    {w.id[1] : w \in held} \cup
    {Unwrap(s.command_buffers)[k].id[1] : k \in
        IF IsNone(s.command_buffers) THEN {} ELSE DOMAIN Unwrap(s.command_buffers)}

SceneInvalidate(s) == [s EXCEPT !.command_buffers = None]

SceneInvalidateAll(s) ==
    LET t == SceneInvalidate(s)
    IN  [t EXCEPT !.camera = CameraInvalidate(@),
                  !.groups = [g \in DOMAIN @ |-> GroupInvalidate(@[g])]]

\* variants of Scene::get_group: one that marks everything stale, one that
\* marks nothing stale
SceneGetGroupAll(s, id) == SceneInvalidateAll(s)
SceneGetGroupKeep(s, id) == s

\* Scene::get_group up to the lookup: the handle is groups[id]
SceneGetGroup(s, id) == SceneInvalidate(s)

SceneCreateGroup(s, id, vp) ==
    SceneGetGroup([s EXCEPT !.groups = Insert(@, id, GroupNew(vp))], id)

\* variant of Scene::get_camera that leaves the objects' batches alone
SceneGetCameraShallow(s) == [SceneInvalidate(s) EXCEPT !.camera = CameraInvalidate(@)]

\* Scene::get_camera: the handle is the camera
SceneGetCamera(s) == SceneInvalidateAll(s)

\* variant of Scene::recreate_pipeline that keeps the old pipelines
SceneRecreatePipelineKept(s, vp) == s

SceneRecreatePipeline(s, vp) ==
    [s EXCEPT !.groups = [g \in DOMAIN @ |-> GroupRecreatePipeline(@[g], vp)]]

\* the objects whose batch cache holds something else in `after` than in
\* `before`: Object::command_buffer recorded their batch
RecordedBetween(before, after) ==
    {p \in GroupNames \X ObjectNames :
        /\ p[1] \in DOMAIN before
        /\ p[2] \in DOMAIN before[p[1]].objects
        /\ before[p[1]].objects[p[2]].command_buffer # after[p[1]].objects[p[2]].command_buffer}

\* One run of the closure of Scene::command_buffers, for framebuffer k: every
\* group hands out its objects' batches, recording those that are stale, and
\* the primary command buffer executes them.  acc.recorded notes which run
\* recorded which object's batch.
RecordTarget(acc, k, fb, build, camera_buffer, used) ==
    CHOOSE r \in
        {[groups |-> groups,
          recorded |-> acc.recorded \cup {<<k, q>> : q \in RecordedBetween(acc.groups, groups)},
          list |-> acc.list @@
                    (k :> [id |-> <<build, k>>,
                           framebuffer |-> fb,
                           secondary |-> [g \in DOMAIN groups |-> GroupBatches(groups[g])]])] :
            groups \in {[g \in DOMAIN acc.groups |->
                            GroupCommandBuffers(acc.groups[g], camera_buffer, used[g])]}} : TRUE

\* framebuffers.iter().map(..).collect(): the closure runs for the
\* framebuffers from k on, in their order
RECURSIVE RecordFrom(_, _, _, _, _, _)
RecordFrom(acc, k, fbs, build, camera_buffer, used) ==
    IF k \notin DOMAIN fbs THEN acc
    ELSE RecordFrom(RecordTarget(acc, k, fbs[k], build, camera_buffer, used),
                    k + 1, fbs, build, camera_buffer, used)

\* the rebuild of Scene::command_buffers: the camera's payload is fetched
\* once, then the closure runs once per framebuffer
RecordList(s, fbs, held) ==
    CHOOSE r \in
        {[camera |-> cam,
          run |-> RecordFrom([groups |-> s.groups, recorded |-> {}, list |-> <<>>], 0, fbs,
                             FreshId(UsedPrimaries(s, held)),
                             Unwrap(cam.subbuffer),
                             [g \in DOMAIN s.groups |-> [o \in DOMAIN s.groups[g].objects |->
                                    UsedInstanceBuffers(s, held, g, o)]])] :
            cam \in {CameraSubbuffer(s.camera, UsedCameraBuffers(s, held))}} : TRUE

\* the list Scene::command_buffers builds: one primary command buffer per
\* framebuffer.  The closure runs once per framebuffer; the first run builds
\* the stale batches and the later runs find them cached.
BuildList(s, fbs, held) ==
    CHOOSE t \in
        {[groups |-> r.run.groups,
          camera |-> r.camera,
          command_buffers |-> Some(r.run.list)] : r \in {RecordList(s, fbs, held)}} : TRUE

\* variant of Scene::command_buffers without the cache check
SceneCommandBuffersUncached(s, fbs, held) == BuildList(s, fbs, held)

\* Scene::command_buffers: the scene after the call; the list returned is
\* Unwrap(command_buffers) of the result
SceneCommandBuffers(s, fbs, held) ==
    IF IsNone(s.command_buffers) THEN BuildList(s, fbs, held) ELSE s

----------------------------------------------------------------------------
(* Initial state: EngineBuilder::build (engine.rs:224-488) and the locals of
   Engine::run (engine.rs:75-80) *)

WindowSizes == {<<1024, 1024>>, <<800, 600>>}

\* the images Swapchain::new and Swapchain::recreate return with the swapchain
SwapchainImages(sc) ==
    [i \in 0..(sc.image_count - 1) |-> [swapchain |-> sc.id, index |-> i, extent |-> sc.extent]]

\* EngineBuilder::build: the depth attachment, as large as the first image
CreateDepthBuffer(imgs) == [extent |-> imgs[0].extent]

\* Engine::create_frambuffers: one framebuffer per image, with a view of the
\* image and the shared depth buffer as its attachments
CreateFramebuffers(imgs, depth) ==
    [i \in DOMAIN imgs |->
        [swapchain |-> imgs[i].swapchain, image |-> imgs[i].index,
         extent |-> imgs[i].extent, depth |-> depth]]

\* the primary command buffers that the queue still holds
Held == {w.command_buffer : w \in in_flight}

NoRebuild == [scene |-> FALSE, camera |-> FALSE, objects |-> {}]
\* the record of a call that is not a build
Called(op) ==
    [op |-> op, target |-> <<>>, rebuilt |-> NoRebuild, ret |-> None, runs |-> <<>>,
     after_camera |-> FALSE, replaced |-> <<>>, lookup |-> <<>>]
\* the record of a loop iteration: the event, how the iteration ended, and for
\* MainEventsCleared the image it acquired, the fence it waited on and whether
\* the acquisition was reported suboptimal
NoTick ==
    [event |-> "none", outcome |-> "none", recreated |-> FALSE, image_i |-> None,
     waited |-> None, blocked |-> FALSE, suboptimal |-> FALSE]

InitEngine(size) ==
    /\ viewport = <<1024, 1024>>
    /\ window_size = size
    /\ swapchain = [id |-> 0, extent |-> size, image_count |-> NumTargets]
    /\ images = SwapchainImages(swapchain)
    /\ depth_buffer = CreateDepthBuffer(images)
    /\ framebuffers = CreateFramebuffers(images, depth_buffer)
    /\ window_resized = FALSE
    /\ recreate_swapchain = FALSE
    /\ fences = [i \in 0..(NumTargets - 1) |-> None]
    /\ previous_fence_i = 0
    /\ in_flight = {}
    /\ exited = FALSE
    /\ tick = NoTick
    /\ events = 0

Init ==
    /\ scene = SceneNew
    /\ camera_handle = FALSE
    /\ last = Called("new")
    /\ camera_changed = FALSE
    /\ panicked = FALSE
    /\ InitEngine(<<1024, 1024>>)

----------------------------------------------------------------------------
(* Callers of the scene's interface.  A call returns a &mut borrow of the
   scene, so nothing else can touch the scene until the borrow has ended.  The
   call chains made through a group are one step each; the camera's handle is
   a state of its own, and its calls are steps.  A failed lookup (unwrap on
   None) aborts the process. *)

\* scene.create_group(g, ..)
DoCreateGroup(s, g, vp) == SceneCreateGroup(s, g, vp)

\* scene.get_group(g), for a registered g
DoGetGroup(s, g) == SceneGetGroup(s, g)

\* scene.get_group(g).create_object(o, ..)
DoCreateObject(s, g, o) ==
    [DoGetGroup(s, g) EXCEPT !.groups[g] = GroupCreateObject(@, o)]

\* scene.get_group(g).recreate_pipeline(..)
DoGroupRecreatePipeline(s, g, vp) ==
    [DoGetGroup(s, g) EXCEPT !.groups[g] = GroupRecreatePipeline(@, vp)]

\* scene.get_group(g).get_object(o).create_instance(i).update(f)
DoCreateInstance(s, g, o, i, f) ==
    LET t == [DoGetGroup(s, g) EXCEPT !.groups[g].objects[o] = ObjectCreateInstance(@, i)]
    IN  [t EXCEPT !.groups[g].objects[o].instances[i] = InstanceUpdate(@, f)]

\* scene.get_group(g).get_object(o).get_instance(i).update(f), for a registered i
DoUpdateInstance(s, g, o, i, f) ==
    LET t == [DoGetGroup(s, g) EXCEPT !.groups[g].objects[o] = ObjectGetInstance(@, i)]
    IN  [t EXCEPT !.groups[g].objects[o].instances[i] = InstanceUpdate(@, f)]

\* scene.get_camera().update(f)
DoCameraUpdate(s, f) == [SceneGetCamera(s) EXCEPT !.camera = CameraUpdate(@, f)]

----------------------------------------------------------------------------
(* The scene driven on its own: every call chain, from Scene::new *)

\* the record of a Scene::command_buffers call that took scene s to t
BuiltAfter(s, t, changed) ==
    [op |-> "command_buffers",
     target |-> <<>>,
     replaced |-> <<>>,
     lookup |-> <<>>,
     \* Camera::update ran since the list was last built
     after_camera |-> changed,
     \* the caches that hold something else than before the call
     rebuilt |-> [scene |-> s.command_buffers # t.command_buffers,
                  camera |-> s.camera.subbuffer # t.camera.subbuffer,
                  objects |-> {p \in ValidObjects(t) :
                                 \/ p \notin ValidObjects(s)
                                 \/ ObjectAt(s, p).command_buffer # ObjectAt(t, p).command_buffer}],
     ret |-> t.command_buffers,
     \* how many lists this call and, when the call before it was one too,
     \* that call built
     runs |-> LET n == IF s.command_buffers # t.command_buffers THEN 1 ELSE 0
              IN  IF last.op = "command_buffers"
                  THEN <<last.runs[Len(last.runs)], n>>
                  ELSE <<n>>]
Built(s, t) == BuiltAfter(s, t, camera_changed)

\* a call chain ran and left the scene t
Ran(t) ==
    /\ ~panicked /\ ~camera_handle
    /\ scene' = t
    /\ UNCHANGED <<camera_handle, panicked, engine_vars>>

\* the record of a get_* call: the name it looked up
Looked(call, name) == [call EXCEPT !.lookup = name]

\* an unwrap() on a failed lookup of name: the process is gone, and its state
\* with it
Aborted(name) ==
    /\ ~panicked /\ ~camera_handle
    /\ panicked' = TRUE
    /\ scene' = SceneNew
    /\ last' = Looked(Called("abort"), name)
    /\ camera_changed' = FALSE
    /\ UNCHANGED <<camera_handle, engine_vars>>

\* the record of a create_* call: the name it registered, when that name was
\* registered before the call
Registered(call, name, present) ==
    IF present THEN [call EXCEPT !.replaced = name] ELSE call

HasGroup(g) == g \in DOMAIN scene.groups
HasObject(g, o) == <<g, o>> \in AllObjects(scene)
HasInstance(g, o, i) == HasObject(g, o) /\ i \in DOMAIN ObjectAt(scene, <<g, o>>).instances

CallCreateGroup(g) ==
    /\ Ran(DoCreateGroup(scene, g, viewport))
    /\ last' = Registered(Called("call"), <<g>>, HasGroup(g))
    /\ UNCHANGED camera_changed

CallGetGroup(g) ==
    /\ IF IsSome(GetMut(scene.groups, g))
       THEN /\ Ran(DoGetGroup(scene, g))
            /\ last' = Looked(Called("call"), <<g>>)
            /\ UNCHANGED camera_changed
       ELSE Aborted(<<g>>)

CallCreateObject(g, o) ==
    /\ HasGroup(g)
    /\ Cardinality(AllObjects(scene) \cup {<<g, o>>}) <= MaxObjects
    /\ Ran(DoCreateObject(scene, g, o))
    /\ last' = Registered(Called("call"), <<g, o>>, HasObject(g, o))
    /\ UNCHANGED camera_changed

\* scene.get_group(g).get_object(o)
CallGetObject(g, o) ==
    /\ HasGroup(g)
    /\ IF IsSome(GetMut(scene.groups[g].objects, o))
       THEN /\ Ran(DoGetGroup(scene, g))
            /\ last' = Looked(Called("call"), <<g, o>>)
            /\ UNCHANGED camera_changed
       ELSE Aborted(<<g, o>>)

CallGroupRecreatePipeline(g) ==
    /\ HasGroup(g)
    /\ Ran(DoGroupRecreatePipeline(scene, g, viewport))
    /\ last' = Called("call")
    /\ UNCHANGED camera_changed

CallCreateInstance(g, o, i, f) ==
    /\ HasObject(g, o)
    /\ HasInstance(g, o, i) \/ InstanceCount(scene) < MaxInstances
    /\ Ran(DoCreateInstance(scene, g, o, i, f))
    /\ last' = Registered([Called("instance") EXCEPT !.target = <<g, o>>],
                           <<g, o, i>>, HasInstance(g, o, i))
    /\ UNCHANGED camera_changed

CallUpdateInstance(g, o, i, f) ==
    /\ HasObject(g, o)
    /\ IF IsSome(GetMut(scene.groups[g].objects[o].instances, i))
       THEN /\ Ran(DoUpdateInstance(scene, g, o, i, f))
            /\ last' = Looked([Called("instance") EXCEPT !.target = <<g, o>>], <<g, o, i>>)
            /\ UNCHANGED camera_changed
       ELSE Aborted(<<g, o, i>>)

CallGetCamera ==
    /\ ~panicked /\ ~camera_handle
    /\ scene' = SceneGetCamera(scene)
    /\ camera_handle' = TRUE
    /\ last' = Called("get_camera")
    /\ UNCHANGED <<camera_changed, panicked, engine_vars>>

CallCameraUpdate(f) ==
    /\ ~panicked /\ camera_handle
    /\ scene' = [scene EXCEPT !.camera = CameraUpdate(@, f)]
    /\ last' = Called("update")
    /\ camera_changed' = TRUE
    /\ UNCHANGED <<camera_handle, panicked, engine_vars>>

CallCameraSubbuffer ==
    /\ ~panicked /\ camera_handle
    /\ scene' = [scene EXCEPT !.camera = CameraSubbuffer(@, UsedCameraBuffers(scene, Held))]
    /\ last' = [Called("subbuffer") EXCEPT
                    !.rebuilt.camera = (scene'.camera.subbuffer # scene.camera.subbuffer),
                    !.ret = scene'.camera.subbuffer]
    /\ UNCHANGED <<camera_handle, camera_changed, panicked, engine_vars>>

\* the camera's handle goes out of scope
DropCamera ==
    /\ ~panicked /\ camera_handle
    /\ camera_handle' = FALSE
    /\ last' = Called("call")
    /\ UNCHANGED <<scene, camera_changed, panicked, engine_vars>>

CallRecreatePipeline ==
    /\ Ran(SceneRecreatePipeline(scene, viewport))
    /\ last' = Called("call")
    /\ UNCHANGED camera_changed

CallCommandBuffers ==
    /\ ~panicked /\ ~camera_handle
    /\ scene' = SceneCommandBuffers(scene, framebuffers, Held)
    /\ last' = Built(scene, scene')
    /\ camera_changed' = FALSE
    /\ UNCHANGED <<camera_handle, panicked, engine_vars>>

SceneNext ==
    \/ \E g \in GroupNames : CallCreateGroup(g)
    \/ \E g \in GroupNames : CallGetGroup(g)
    \/ \E g \in GroupNames, o \in ObjectNames : CallCreateObject(g, o)
    \/ \E g \in GroupNames, o \in ObjectNames : CallGetObject(g, o)
    \/ \E g \in GroupNames : CallGroupRecreatePipeline(g)
    \/ \E g \in GroupNames, o \in ObjectNames, i \in InstanceNames, f \in InstanceMutators :
            CallCreateInstance(g, o, i, f)
    \/ \E g \in GroupNames, o \in ObjectNames, i \in InstanceNames, f \in InstanceMutators :
            CallUpdateInstance(g, o, i, f)
    \/ CallGetCamera
    \/ \E f \in CameraMutators : CallCameraUpdate(f)
    \/ CallCameraSubbuffer
    \/ DropCamera
    \/ CallRecreatePipeline
    \/ CallCommandBuffers

Spec == Init /\ [][SceneNext]_vars

----------------------------------------------------------------------------
(* The scene's public interface used in the ways main.rs does not use it:
   recreate_pipeline for a viewport other than the one the pipelines were
   built for, without a camera update before it, and the public fields of an
   Instance written through the handle without Instance::update. *)

\* scene.get_group(g).get_object(o).get_instance(i).position = .. (and angle,
\* scale): the fields are pub, the write goes around Instance::update
DoWriteInstance(s, g, o, i, f) ==
    LET t == [DoGetGroup(s, g) EXCEPT !.groups[g].objects[o] = ObjectGetInstance(@, i)]
    IN  [t EXCEPT !.groups[g].objects[o].instances[i] = ApplyInstanceMutator(f, @)]

CallWriteInstance(g, o, i, f) ==
    /\ HasInstance(g, o, i)
    /\ Ran(DoWriteInstance(scene, g, o, i, f))
    /\ last' = [Called("write") EXCEPT !.target = <<g, o, i>>]
    /\ UNCHANGED camera_changed

\* scene.get_group(g).recreate_pipeline(.., viewport) for a viewport vp
CallGroupRecreatePipelineFor(g, vp) ==
    /\ HasGroup(g)
    /\ Ran(DoGroupRecreatePipeline(scene, g, vp))
    /\ last' = [Called("recreate_pipeline") EXCEPT !.target = <<g>>]
    /\ UNCHANGED camera_changed

\* scene.recreate_pipeline(.., viewport) for a viewport vp
CallRecreatePipelineFor(vp) ==
    /\ Ran(SceneRecreatePipeline(scene, vp))
    /\ last' = Called("recreate_pipeline")
    /\ UNCHANGED camera_changed

\* the names these call chains use
ApiObjectNames == {"cube"}
ApiInstanceNames == {"0"}

ApiNext ==
    \/ \E g \in GroupNames : CallCreateGroup(g)
    \/ \E g \in GroupNames : CallGetGroup(g)
    \/ \E g \in GroupNames, o \in ApiObjectNames : CallCreateObject(g, o)
    \/ \E g \in GroupNames, o \in ApiObjectNames, i \in ApiInstanceNames, f \in InstanceMutators :
            CallCreateInstance(g, o, i, f)
    \/ \E g \in GroupNames, o \in ApiObjectNames, i \in ApiInstanceNames, f \in InstanceMutators :
            CallUpdateInstance(g, o, i, f)
    \/ \E g \in GroupNames, o \in ApiObjectNames, i \in ApiInstanceNames, f \in InstanceMutators :
            CallWriteInstance(g, o, i, f)
    \/ \E g \in GroupNames, vp \in WindowSizes : CallGroupRecreatePipelineFor(g, vp)
    \/ \E vp \in WindowSizes : CallRecreatePipelineFor(vp)
    \/ CallCommandBuffers

ApiSpec == Init /\ [][ApiNext]_vars

----------------------------------------------------------------------------
(* Engine::run (engine.rs:74-199): the closure handed to the event loop, one
   step per event, from the scene that main builds (main.rs:32-50).  What the
   window system, the swapchain and the queue answer is the environment's
   choice. *)

\* main.rs:32-50
MainSetup ==
    DoCameraUpdate(
        DoCreateInstance(
            DoCreateObject(DoCreateGroup(SceneNew, "basic", <<1024, 1024>>), "basic", "cube"),
            "basic", "cube", "0", "place"),
        [name |-> "back"])

EngineInit ==
    /\ scene = MainSetup
    /\ camera_handle = FALSE
    /\ last = Called("new")
    /\ camera_changed = TRUE
    /\ panicked = FALSE
    \* the window opens at the window system's default size
    /\ InitEngine(<<800, 600>>)

\* the update handlers: closures over (&Event, &mut Scene)
Handlers == {"idle", "animate"}

\* update_handler(&event, &mut self.scene): "animate" does what the closure of
\* main.rs:113-137 does, it moves the camera and turns an instance of the cube
Handle(h, s) ==
    CASE h = "animate" ->
            DoUpdateInstance(DoCameraUpdate(s, [name |-> "yaw"]), "basic", "cube", "0", "turn")
      [] OTHER -> s

RecreateOutcomes == {"ok", "extent_not_supported", "error"}
AcquireErrors == {"out_of_date", "error"}
WaitOutcomes == {"ok", "error"}
FlushOutcomes == {"ok", "out_of_date", "error", "exec_error"}

\* the swapchains something still refers to
SwapchainsInUse ==
    {swapchain.id}
        \cup {images[i].swapchain : i \in DOMAIN images}
        \cup {w.command_buffer.framebuffer.swapchain : w \in in_flight}
        \cup {Unwrap(scene.command_buffers)[k].framebuffer.swapchain : k \in
                IF IsNone(scene.command_buffers) THEN {} ELSE DOMAIN Unwrap(scene.command_buffers)}

\* the fences something still refers to
FencesInUse ==
    UNION {Iter(fences[i]) : i \in DOMAIN fences}
        \cup {w.fence : w \in in_flight}
        \cup UNION {Iter(w.wait_for.previous) : w \in in_flight}

\* the submissions the queue has completed once the fence f has signalled:
\* the one that signals f and everything it was chained after
RECURSIVE Before(_, _)
Before(inflight, f) ==
    LET ws == {w \in inflight : w.fence = f}
    IN  ws \cup UNION {Before(inflight \ ws, f0) :
                          f0 \in UNION {Iter(w.wait_for.previous) : w \in ws}}

\* variant of the wait that returns at once
WaitFenceSkipped(inflight, image_fence) == inflight

\* engine.rs:149-151: if let Some(image_fence) = &fences[image_i] { wait }: what
\* is still in flight when the wait has returned
WaitFence(inflight, image_fence) ==
    IF IsNone(image_fence) THEN inflight
    ELSE inflight \ Before(inflight, Unwrap(image_fence))

\* variant that always starts the chain from sync::now
PreviousFutureNow(fs, previous_i) == None

\* engine.rs:153-160: the fence to chain after, None for sync::now
PreviousFuture(fs, previous_i) == fs[previous_i]

\* variant of the chain that leaves out the acquisition
ChainAfterPreviousOnly(previous_future, acquire_future) ==
    [previous |-> previous_future, acquire |-> None]

\* engine.rs:162-163: previous_future.join(acquire_future)
Join(previous_future, acquire_future) ==
    [previous |-> previous_future, acquire |-> Some(acquire_future)]

\* variant that stores the fence whatever the flush returned
StoreFenceAlways(fs, image_i, flushed, fence) == [fs EXCEPT ![image_i] = Some(fence)]

\* engine.rs:183-193: what the slot of the acquired image is set to
StoreFence(fs, image_i, flushed, fence) ==
    [fs EXCEPT ![image_i] = IF flushed = "ok" THEN Some(fence) ELSE None]

\* the process ends (control flow Exit, or a panic): its state is gone
EngineGone(t) ==
    /\ scene' = SceneNew
    /\ camera_handle' = FALSE
    /\ last' = Called("abort")
    /\ camera_changed' = FALSE
    /\ viewport' = <<1024, 1024>>
    /\ window_size' = <<1024, 1024>>
    /\ swapchain' = [id |-> 0, extent |-> <<1024, 1024>>, image_count |-> NumTargets]
    /\ images' = SwapchainImages(swapchain')
    /\ depth_buffer' = CreateDepthBuffer(images')
    /\ framebuffers' = CreateFramebuffers(images', depth_buffer')
    /\ window_resized' = FALSE
    /\ recreate_swapchain' = FALSE
    /\ fences' = [i \in 0..(NumTargets - 1) |-> None]
    /\ previous_fence_i' = 0
    /\ in_flight' = {}
    /\ tick' = t
    /\ events' = 0

Panic(event) ==
    /\ EngineGone([NoTick EXCEPT !.event = event, !.outcome = "panic"])
    /\ panicked' = TRUE
    /\ exited' = FALSE

Live == ~panicked /\ ~exited

\* the event loop calls the closure with the next event
Event == Live /\ events < MaxEvents

\* the handler ran, and the engine's match arm changed nothing in the scene
Handled(h, event) ==
    /\ scene' = Handle(h, scene)
    /\ last' = Called("call")
    /\ camera_changed' = (camera_changed \/ h = "animate")
    /\ tick' = [NoTick EXCEPT !.event = event, !.outcome = "handled"]
    /\ events' = events + 1
    /\ UNCHANGED <<camera_handle, panicked, exited>>

\* engine.rs:87-90
EventCloseRequested(h) ==
    /\ Event
    /\ EngineGone([NoTick EXCEPT !.event = "close", !.outcome = "exit"])
    /\ exited' = TRUE
    /\ panicked' = FALSE

\* engine.rs:91-94; the window has the new size when the event arrives
EventResized(h, size) ==
    /\ Event
    /\ Handled(h, "resized")
    /\ window_size' = size
    /\ window_resized' = TRUE
    /\ UNCHANGED <<viewport, swapchain, images, depth_buffer, framebuffers,
                   recreate_swapchain, fences, previous_fence_i, in_flight>>

\* engine.rs:197
EventOther(h) ==
    /\ Event
    /\ Handled(h, "other")
    /\ UNCHANGED <<viewport, swapchain, images, depth_buffer, framebuffers, window_size,
                   window_resized, recreate_swapchain, fences, previous_fence_i, in_flight>>

\* the locals and fields a MainEventsCleared iteration works on
\* variant in which the list cached before the handler ran is still the
\* scene's list after it
FrameListBeforeHandler(h) ==
    [scene |-> [Handle(h, scene) EXCEPT !.command_buffers = scene.command_buffers],
     camera_changed |-> (camera_changed \/ h = "animate"),
     viewport |-> viewport, swapchain |-> swapchain, framebuffers |-> framebuffers,
     window_resized |-> window_resized, recreate_swapchain |-> recreate_swapchain,
     recreated |-> FALSE]

Frame(h) ==
    [scene |-> Handle(h, scene),
     camera_changed |-> (camera_changed \/ h = "animate"),
     viewport |-> viewport, swapchain |-> swapchain, framebuffers |-> framebuffers,
     window_resized |-> window_resized, recreate_swapchain |-> recreate_swapchain,
     recreated |-> FALSE]

\* variant of swapchain.recreate that returns a swapchain of one image
SwapchainRecreateOneImage(sc, new_dimensions) ==
    [id |-> FreshId(SwapchainsInUse), extent |-> new_dimensions, image_count |-> 1]

\* engine.rs:100-105: the swapchain that swapchain.recreate returns for the
\* create info of the old one with the new image_extent
SwapchainRecreate(sc, new_dimensions) ==
    [id |-> FreshId(SwapchainsInUse), extent |-> new_dimensions,
     image_count |-> sc.image_count]

\* engine.rs:97-132 when swapchain.recreate returned Ok
Recreated(m, new_dimensions) ==
    LET sc == SwapchainRecreate(m.swapchain, new_dimensions)
        m1 == [m EXCEPT !.recreate_swapchain = FALSE,
                        !.swapchain = sc,
                        !.framebuffers = CreateFramebuffers(SwapchainImages(sc), depth_buffer),
                        !.recreated = TRUE]
    IN  IF m.window_resized
        THEN [m1 EXCEPT
                !.window_resized = FALSE,
                !.viewport = new_dimensions,
                !.scene = SceneRecreatePipeline(
                            DoCameraUpdate(m.scene,
                                [name |-> "aspect",
                                 value |-> Ratio(new_dimensions[1], new_dimensions[2])]),
                            new_dimensions),
                !.camera_changed = TRUE]
        ELSE m1

\* the iteration returned before it submitted anything (engine.rs:107, 140)
Returned(m, outcome) ==
    /\ scene' = m.scene
    /\ last' = Called("call")
    /\ camera_changed' = m.camera_changed
    /\ viewport' = m.viewport
    /\ swapchain' = m.swapchain
    /\ framebuffers' = m.framebuffers
    /\ window_resized' = m.window_resized
    /\ recreate_swapchain' = m.recreate_swapchain
    /\ tick' = [NoTick EXCEPT !.event = "main", !.outcome = outcome,
                              !.recreated = m.recreated]
    /\ events' = events + 1
    /\ UNCHANGED <<camera_handle, panicked, exited, window_size, images, depth_buffer,
                   fences, previous_fence_i, in_flight>>

\* variant that takes a suboptimal acquisition for a good one
SuboptimalIgnored(m, suboptimal) == m

\* engine.rs:145-147: if suboptimal { recreate_swapchain = true }
Suboptimal(m, suboptimal) ==
    [m EXCEPT !.recreate_swapchain = (@ \/ suboptimal)]

\* engine.rs:145-195: image_i was acquired and the wait on its fence returned
Submitted(m, image_i, suboptimal, flushed) ==
    LET waited == WaitFence(in_flight, fences[image_i])
        previous_future == PreviousFuture(fences, previous_fence_i)
        acquire_future == [swapchain |-> m.swapchain.id, image_i |-> image_i]
        fence == <<image_i, FreshId({f[2] : f \in {g \in FencesInUse : g[1] = image_i}})>>
        work == [fence |-> fence,
                 image_i |-> image_i,
                 command_buffer |-> Unwrap(scene'.command_buffers)[image_i],
                 wait_for |-> Join(previous_future, acquire_future),
                 present |-> [swapchain |-> m.swapchain.id, index |-> image_i]]
    IN  /\ scene' = SceneCommandBuffers(m.scene, m.framebuffers,
                                        {w.command_buffer : w \in waited})
        /\ last' = BuiltAfter(m.scene, scene', m.camera_changed)
        /\ camera_changed' = FALSE
        /\ viewport' = m.viewport
        /\ swapchain' = m.swapchain
        /\ framebuffers' = m.framebuffers
        /\ window_resized' = m.window_resized
        /\ recreate_swapchain' = (\/ Suboptimal(m, suboptimal).recreate_swapchain
                                  \/ flushed = "out_of_date")
        /\ fences' = StoreFence(fences, image_i, flushed, fence)
        /\ previous_fence_i' = image_i
        /\ in_flight' = IF flushed = "ok" THEN waited \cup {work} ELSE waited
        /\ tick' = [event |-> "main",
                    outcome |-> IF flushed = "ok" THEN "submitted" ELSE "flush_" \o flushed,
                    recreated |-> m.recreated,
                    image_i |-> Some(image_i),
                    waited |-> fences[image_i],
                    \* the fence had not signalled when the wait began
                    blocked |-> (waited # in_flight),
                    suboptimal |-> suboptimal]
        /\ events' = events + 1
        /\ UNCHANGED <<camera_handle, panicked, exited, window_size, images, depth_buffer>>

\* variant that ends the tick without marking the swapchain for recreation
OutOfDateIgnored(m) == m

\* engine.rs:138-141: acquire_next_image returned AcquireError::OutOfDate
OutOfDate(m) == [m EXCEPT !.recreate_swapchain = TRUE]

\* engine.rs:135-195
Acquire(m) ==
    \/ \E e \in AcquireErrors :
        IF e = "out_of_date"
        THEN Returned(OutOfDate(m), "acquire_out_of_date")
        ELSE Panic("main")
    \/ \E image_i \in DOMAIN m.framebuffers, suboptimal \in BOOLEAN :
       \E waiting \in IF IsSome(fences[image_i]) THEN WaitOutcomes ELSE {"ok"} :
        IF waiting = "error" THEN Panic("main")
        ELSE \E flushed \in FlushOutcomes :
                IF flushed = "exec_error" THEN Panic("main")
                ELSE Submitted(m, image_i, suboptimal, flushed)

\* variant that takes the unsupported extent for a success
ExtentNotSupportedApplied(m) == Recreated(m, window_size)

\* engine.rs:97-108: recreate_swapchain was cleared, then swapchain.recreate
\* returned ImageExtentNotSupported and the iteration returned
ExtentNotSupported(m) == [m EXCEPT !.recreate_swapchain = FALSE]

\* engine.rs:95-196
EventMainEventsCleared(h) ==
    /\ Event
    /\ IF window_resized \/ recreate_swapchain
       THEN \E r \in RecreateOutcomes :
                CASE r = "extent_not_supported" ->
                        \E m \in {ExtentNotSupported(Frame(h))} :
                            Returned(m, "extent_not_supported")
                  [] r = "error" -> Panic("main")
                  [] OTHER -> \E m \in {Recreated(Frame(h), window_size)} : Acquire(m)
       ELSE \E m \in {Frame(h)} : Acquire(m)

\* the queue completes a submission whose predecessor has completed
GpuComplete ==
    /\ Live
    /\ \E w \in in_flight :
        /\ \A f \in Iter(w.wait_for.previous) : \A v \in in_flight : v.fence # f
        /\ in_flight' = in_flight \ {w}
    /\ UNCHANGED <<scene_vars, panicked, viewport, swapchain, images, depth_buffer,
                   framebuffers, window_size,
                   window_resized, recreate_swapchain, fences, previous_fence_i, exited, tick,
                   events>>

EngineNext ==
    \/ \E h \in Handlers : EventCloseRequested(h)
    \/ \E h \in Handlers, size \in WindowSizes \ {window_size} : EventResized(h, size)
    \/ \E h \in Handlers : EventOther(h)
    \/ \E h \in Handlers : EventMainEventsCleared(h)
    \/ GpuComplete

EngineSpec == EngineInit /\ [][EngineNext]_vars

----------------------------------------------------------------------------
(* Properties of the scene's caches, checked under Spec *)

\* the last two calls were both Scene::command_buffers
TwoBuildCalls == last.op = "command_buffers" /\ Len(last.runs) = 2

\* C1 as stated: for any scene state, two consecutive Scene::command_buffers
\* calls with no intervening mutation perform exactly one rebuild in total.
C1_ExactlyOneRebuild ==
    TwoBuildCalls => last.runs[1] + last.runs[2] = 1

\* C1 amended: two consecutive Scene::command_buffers calls with no
\* intervening mutation perform at most one rebuild in total (the first call
\* rebuilds exactly when the list was stale before it); the second call
\* rebuilds nothing, changes nothing and returns the list the first returned.
C1_SecondCallIsCacheHit ==
    /\ [](TwoBuildCalls =>
            /\ last.runs[2] = 0
            /\ last.runs[1] + last.runs[2] <= 1
            /\ last.rebuilt = NoRebuild)
    /\ [][(last.op = "command_buffers" /\ last'.op = "command_buffers") =>
            /\ (last.runs[Len(last.runs)] = 1) = last.rebuilt.scene
            /\ last'.ret = last.ret
            /\ scene' = scene
            /\ scene'.command_buffers = last.ret]_vars

\* C1 witness: a build of a scene with an instanced object, then a cache hit
C1_Witness ==
    /\ TwoBuildCalls /\ last.runs = <<1, 0>>
    /\ IsSome(last.ret)
    /\ \E p \in ValidObjects(scene) : DOMAIN ObjectAt(scene, p).instances # {}

\* C2: a mutation of an instance of object O (get_group, get_object,
\* get_instance or create_instance, update) marks O's batch and the scene's
\* list stale and leaves the cache of every other object, in the same group
\* or another, exactly as it was; and no Scene::command_buffers call rebuilds
\* the batch of an object whose batch was valid.
C2_InvalidationLocality ==
    /\ [][last'.op = "instance" =>
            /\ last'.target \in AllObjects(scene')
            /\ IsNone(ObjectAt(scene', last'.target).command_buffer)
            /\ IsNone(scene'.command_buffers)
            /\ AllObjects(scene') = AllObjects(scene)
            /\ \A q \in AllObjects(scene) \ {last'.target} :
                    ObjectAt(scene', q) = ObjectAt(scene, q)]_vars
    /\ [][last'.op = "command_buffers" =>
            /\ last'.rebuilt.objects \cap ValidObjects(scene) = {}
            /\ \A q \in ValidObjects(scene) :
                    ObjectAt(scene', q) = ObjectAt(scene, q)]_vars

\* C2 witness: an instance of one object was just mutated while the batch of
\* a sibling in the same group is valid
C2_Witness ==
    /\ last.op = "instance"
    /\ \E q \in ValidObjects(scene) : q[1] = last.target[1] /\ q # last.target
    /\ last.target \in StaleObjects(scene)

\* C3: whenever an object's batch cache is valid, the per-instance data
\* serialized into the batch equals the values of the object's current
\* instance mapping, and the batch draws that many instances.
C3_BatchMatchesInstances ==
    \A p \in ValidObjects(scene) :
        LET obj == ObjectAt(scene, p)
            batch == Unwrap(obj.command_buffer)
        IN  /\ batch.instance_buffer.data = InstanceData(obj.instances)
            /\ batch.instance_count = Cardinality(DOMAIN obj.instances)

\* C3 witness: a valid batch of an object whose instance was moved by update
C3_Witness ==
    \E p \in ValidObjects(scene) :
        \E i \in DOMAIN ObjectAt(scene, p).instances :
            /\ ObjectAt(scene, p).instances[i] # InstanceDefault
            /\ ObjectAt(scene, p).instances[i] = InstanceUpdate(InstanceDefault, "place")

\* C4: after get_camera().update(..), the next Scene::command_buffers call
\* rebuilds the scene's list and the batch of every object of every group,
\* whether or not an object or instance changed.
C4_CameraChangeRebuildsAll ==
    (last.op = "command_buffers" /\ last.after_camera) =>
        /\ last.rebuilt.scene
        /\ last.rebuilt.objects = AllObjects(scene)

\* C4 witness: a build after a camera update rebuilt the batches of two objects
C4_Witness ==
    /\ last.op = "command_buffers" /\ last.after_camera
    /\ Cardinality(last.rebuilt.objects) >= 2
    /\ scene.camera.configuration # CameraConfigurationDefault

\* C5 as stated: Scene::get_camera marks the scene's list stale and leaves
\* every group-level and object-level cache valid.
C5_GetCameraKeepsBatches ==
    [][last'.op = "get_camera" =>
            /\ IsNone(scene'.command_buffers)
            /\ ValidObjects(scene) \subseteq ValidObjects(scene')]_vars

\* C5 amended: Scene::get_camera marks the scene's list, the camera's payload
\* and every object's batch stale (a batch binds the camera's payload buffer),
\* and changes nothing else.
C5_GetCameraInvalidatesAll ==
    /\ [](last.op = "get_camera" =>
            /\ IsNone(scene.command_buffers)
            /\ IsNone(scene.camera.subbuffer)
            /\ ValidObjects(scene) = {})
    /\ [][last'.op = "get_camera" =>
            /\ scene'.camera.configuration = scene.camera.configuration
            /\ AllObjects(scene') = AllObjects(scene)
            /\ \A p \in AllObjects(scene) :
                    ObjectAt(scene', p).instances = ObjectAt(scene, p).instances
            /\ \A g \in DOMAIN scene.groups :
                    scene'.groups[g].pipeline = scene.groups[g].pipeline]_vars

\* C5 witness: get_camera was just called on a scene with an instanced object
C5_Witness ==
    /\ last.op = "get_camera" /\ camera_handle
    /\ \E p \in AllObjects(scene) : DOMAIN ObjectAt(scene, p).instances # {}

\* C6: whenever the scene's list cache is valid, the camera's payload cache
\* is valid and the batch cache of every object of every group is valid.
C6_ValidListImpliesValidBelow ==
    IsSome(scene.command_buffers) =>
        /\ IsSome(scene.camera.subbuffer)
        /\ StaleObjects(scene) = {}

\* C6 witness: a valid list over two objects, one of them instanced
C6_Witness ==
    /\ IsSome(scene.command_buffers)
    /\ Cardinality(AllObjects(scene)) >= 2
    /\ InstanceCount(scene) >= 1

\* C7: a stale cache becomes valid only in the build operation of its level:
\* the camera's payload in Camera::subbuffer (which Scene::command_buffers
\* calls), an object's batch and the scene's list in Scene::command_buffers.
\* No accessor, create_*, update or recreate_pipeline makes a cache valid.
C7_LazyInvalidation ==
    [][/\ (IsNone(scene.camera.subbuffer) /\ IsSome(scene'.camera.subbuffer)) =>
            last'.op \in {"subbuffer", "command_buffers"}
       /\ (ValidObjects(scene') \ ValidObjects(scene) # {}) =>
            last'.op = "command_buffers"
       /\ (IsNone(scene.command_buffers) /\ IsSome(scene'.command_buffers)) =>
            last'.op = "command_buffers"]_vars

\* C7 witness: after Camera::update the list, the payload and an object's
\* batch are all still stale
C7_Witness ==
    /\ last.op = "update"
    /\ IsNone(scene.command_buffers) /\ IsNone(scene.camera.subbuffer)
    /\ StaleObjects(scene) # {}

\* C8: Camera::update marks the payload cache stale on every call, whatever
\* the closure does; Camera::subbuffer recomputes the payload exactly when
\* the cache is stale; a valid payload is the one computed from the current
\* configuration.
C8_CameraPayload ==
    /\ [](/\ last.op = "update" => IsNone(scene.camera.subbuffer)
          /\ IsSome(scene.camera.subbuffer) =>
                Unwrap(scene.camera.subbuffer).data = CameraDataNew(scene.camera.configuration)
          /\ last.op = "subbuffer" =>
                IsSome(scene.camera.subbuffer) /\ last.ret = scene.camera.subbuffer)
    /\ [][last'.op = "subbuffer" =>
            last'.rebuilt.camera = IsNone(scene.camera.subbuffer)]_vars

\* C8 witness: Camera::subbuffer just recomputed the payload of a camera
\* that update had moved
C8_Witness ==
    /\ last.op = "subbuffer" /\ last.rebuilt.camera
    /\ scene.camera.configuration = ApplyCameraMutator([name |-> "back"], CameraConfigurationDefault)
    /\ scene.camera.configuration # CameraConfigurationDefault

\* every entry of mapping `after` but the one under key k is as in `before`
OthersUnchanged(before, after, k) ==
    /\ DOMAIN after = DOMAIN before
    /\ \A x \in DOMAIN before \ {k} : after[x] = before[x]

\* C20: a create_group, create_object or create_instance call for a name that
\* is already registered leaves one entry under that name, the fresh one (a
\* group without objects, an object without instances and with a stale batch,
\* an instance with the default transform, to which the chained update is
\* then applied), leaves every other entry of that mapping and everything
\* outside it as it was, and leaves the scene's list stale.
C20_LastWriterWins ==
    [][last'.replaced # <<>> =>
        LET n == last'.replaced
            g == n[1]
        IN  /\ IsNone(scene'.command_buffers)
            /\ scene'.camera = scene.camera
            /\ OthersUnchanged(scene.groups, scene'.groups, g)
            /\ CASE Len(n) = 1 ->
                    /\ scene'.groups[g] = GroupNew(viewport)
                    /\ DOMAIN scene'.groups[g].objects = {}
                 [] Len(n) = 2 ->
                    /\ scene'.groups[g].pipeline = scene.groups[g].pipeline
                    /\ OthersUnchanged(scene.groups[g].objects, scene'.groups[g].objects, n[2])
                    /\ scene'.groups[g].objects[n[2]] = ObjectNew
                    /\ DOMAIN scene'.groups[g].objects[n[2]].instances = {}
                    /\ IsNone(scene'.groups[g].objects[n[2]].command_buffer)
                 [] OTHER ->
                    LET before == scene.groups[g].objects[n[2]]
                        after == scene'.groups[g].objects[n[2]]
                    IN  /\ scene'.groups[g].pipeline = scene.groups[g].pipeline
                        /\ OthersUnchanged(scene.groups[g].objects, scene'.groups[g].objects, n[2])
                        /\ OthersUnchanged(before.instances, after.instances, n[3])
                        /\ IsNone(after.command_buffer)
                        /\ ObjectCreateInstance(before, n[3]).instances[n[3]] = InstanceDefault
                        /\ \E f \in InstanceMutators :
                                after.instances[n[3]] = InstanceUpdate(InstanceDefault, f)]_vars

\* C20 witness: create_instance has just replaced a placed instance by a
\* default one in an object that has a second, placed instance, in a scene
\* with a second group
C20_Witness ==
    /\ Len(last.replaced) = 3
    /\ Cardinality(DOMAIN scene.groups) = 2
    /\ LET obj == scene.groups[last.replaced[1]].objects[last.replaced[2]]
       IN  /\ Cardinality(DOMAIN obj.instances) = 2
           /\ obj.instances[last.replaced[3]] = InstanceDefault
           /\ \E j \in DOMAIN obj.instances : obj.instances[j] = InstanceUpdate(InstanceDefault, "place")

RegisteredNames(s) ==
    {<<g>> : g \in DOMAIN s.groups}
        \cup AllObjects(s)
        \cup {q \in GroupNames \X ObjectNames \X InstanceNames :
                /\ <<q[1], q[2]>> \in AllObjects(s)
                /\ q[3] \in DOMAIN ObjectAt(s, <<q[1], q[2]>>).instances}
\* the map a name is looked up in is itself registered
ParentRegistered(s, name) ==
    Len(name) > 1 => SubSeq(name, 1, Len(name) - 1) \in RegisteredNames(s)

\* C25: Scene::get_group, Group::get_object and Object::get_instance called
\* with a name that is not registered abort the process: every abort follows
\* a lookup of a name that was not registered, and every lookup that returns
\* was of a registered name, registers no name and, for a group or an object,
\* leaves every entry as it was.
C25_UnknownNameAborts ==
    [][/\ (panicked' /\ ~panicked) => last'.op = "abort"
       /\ last'.op = "abort" =>
            /\ panicked'
            /\ last'.lookup # <<>>
            /\ last'.lookup \notin RegisteredNames(scene)
            /\ ParentRegistered(scene, last'.lookup)
       /\ (last'.lookup # <<>> /\ last'.op # "abort") =>
            /\ ~panicked'
            /\ last'.lookup \in RegisteredNames(scene)
            /\ RegisteredNames(scene') = RegisteredNames(scene)
            /\ Len(last'.lookup) < 3 => scene'.groups = scene.groups
      ]_vars

\* an update of an instance that was never created has aborted the process
C25_Witness ==
    /\ panicked
    /\ last.op = "abort"
    /\ Len(last.lookup) = 3

\* the instances registered in the scene
AllInstances(s) ==
    UNION {{ObjectAt(s, p).instances[i] : i \in DOMAIN ObjectAt(s, p).instances} :
            p \in AllObjects(s)}

\* the points, positions and scales the transform is tried on
TransformPoints == {-1, 0, 1} \X {-1, 0, 1} \X {-1, 0, 1}
TransformPositions == {<<0, 0, 0>>, <<1, 2, 3>>, <<-2, 0, 5>>}
TransformScales == {-1, 0, 1, 2, 3}
ScaledAndMoved(p, scale, position) ==
    <<scale * p[1] + position[1], scale * p[2] + position[2], scale * p[3] + position[3]>>

\* C27: the model matrix of an instance that Instance::update left with zero
\* angles maps every point p to scale * p + position, the scale applied
\* before the translation; for position (1,2,3) and scale 2 it maps the origin
\* to (1,2,3) and a unit basis vector e to 2 * e + (1,2,3).  The same holds
\* for the matrix Instance::update derives from any position and scale; that
\* part does not depend on the state and is evaluated in the state after
\* Scene::new.
C27_RoundTripTransform ==
    /\ \A inst \in AllInstances(scene) :
            inst.angle = <<0, 0, 0>> =>
                \A p \in TransformPoints :
                    TransformPoint(inst.model, p) = ScaledAndMoved(p, inst.scale, inst.position)
    /\ last.op = "new" =>
        \A position \in TransformPositions, scale \in TransformScales :
            \E inst \in {InstanceUpdate([InstanceDefault EXCEPT !.position = position,
                                                                !.scale = scale], "noop")} :
                \A p \in TransformPoints :
                    TransformPoint(inst.model, p) = ScaledAndMoved(p, scale, position)

\* an instance was updated to position (1,2,3), zero angles and scale 2; its
\* matrix maps the origin to (1,2,3) and the unit vectors to (3,2,3), (1,4,3)
\* and (1,2,5)
C27_Witness ==
    \E inst \in AllInstances(scene) :
        /\ inst.position = <<1, 2, 3>>
        /\ inst.angle = <<0, 0, 0>>
        /\ inst.scale = 2
        /\ TransformPoint(inst.model, <<0, 0, 0>>) = <<1, 2, 3>>
        /\ TransformPoint(inst.model, <<1, 0, 0>>) = <<3, 2, 3>>
        /\ TransformPoint(inst.model, <<0, 1, 0>>) = <<1, 4, 3>>
        /\ TransformPoint(inst.model, <<0, 0, 1>>) = <<1, 2, 5>>

\* the batches are all bound to the payload the camera has cached
BoundToCachedPayload(batches, cam) ==
    batches # {} =>
        /\ IsSome(cam.subbuffer)
        /\ \A b \in batches : b.camera_buffer = Unwrap(cam.subbuffer)

C31_RebuildOncePerBuild ==
    [][(last'.op = "command_buffers" /\ ~panicked' /\ IsNone(scene.command_buffers)) =>
        \E r \in {RecordList(scene, framebuffers, Held)} :
            /\ scene' = [groups |-> r.run.groups, camera |-> r.camera,
                         command_buffers |-> Some(r.run.list)]
            /\ DOMAIN r.run.list = DOMAIN framebuffers
            /\ r.run.recorded = {<<0, p>> : p \in StaleObjects(scene)}
            /\ IsSome(scene.camera.subbuffer) => scene'.camera = scene.camera
            /\ \A b \in ListBatches(scene'.command_buffers) :
                    b.camera_buffer = Unwrap(scene'.camera.subbuffer)
            /\ \A p \in ValidObjects(scene) : ObjectAt(scene', p) = ObjectAt(scene, p)
            /\ \A k \in DOMAIN r.run.list :
                /\ r.run.list[k].secondary = r.run.list[0].secondary
                /\ \A p \in AllObjects(scene) :
                        r.run.list[k].secondary[p[1]][p[2]]
                            = Unwrap(ObjectAt(scene', p).command_buffer)]_vars

\* C31 witness: a list was rebuilt for more than one framebuffer over two
\* objects, one whose batch was recorded by this call and one whose batch
\* was still cached, and the camera's payload was still cached
C31_Witness ==
    /\ last.op = "command_buffers" /\ last.rebuilt.scene /\ ~last.rebuilt.camera
    /\ Cardinality(DOMAIN Unwrap(scene.command_buffers)) > 1
    /\ Cardinality(last.rebuilt.objects) = 1
    /\ Cardinality(AllObjects(scene)) = 2
    /\ \A k \in DOMAIN Unwrap(scene.command_buffers) :
            Unwrap(scene.command_buffers)[k].secondary = Unwrap(scene.command_buffers)[0].secondary

----------------------------------------------------------------------------
(* Properties of the scene's interface, checked under ApiSpec *)

\* the last call was a Scene::command_buffers that rebuilt the list
JustRebuilt == last.op = "command_buffers" /\ last.rebuilt.scene

\* the list has one primary command buffer per framebuffer, in the order of
\* the framebuffers, and each executes one batch per object of every group,
\* the batch the object's cache holds
ListShape(s, fbs) ==
    /\ IsSome(s.command_buffers)
    /\ DOMAIN Unwrap(s.command_buffers) = DOMAIN fbs
    /\ \A k \in DOMAIN fbs :
        LET cb == Unwrap(s.command_buffers)[k]
        IN  /\ cb.framebuffer = fbs[k]
            /\ DOMAIN cb.secondary = DOMAIN s.groups
            /\ \A g \in DOMAIN s.groups :
                /\ DOMAIN cb.secondary[g] = DOMAIN s.groups[g].objects
                /\ \A o \in DOMAIN s.groups[g].objects :
                    cb.secondary[g][o] = Unwrap(s.groups[g].objects[o].command_buffer)

\* every batch of the list is bound to the pipeline its group has now
ListUsesGroupPipelines(s) ==
    \A k \in DOMAIN Unwrap(s.command_buffers) :
        \A g \in DOMAIN s.groups :
            \A o \in DOMAIN Unwrap(s.command_buffers)[k].secondary[g] :
                Unwrap(s.command_buffers)[k].secondary[g][o].pipeline = s.groups[g].pipeline

\* C21 as stated: when Scene::command_buffers rebuilds, the list has one entry
\* per framebuffer passed in, in their order, each entry holds one batch for
\* every object of every group, each batch is bound to its own group's
\* pipeline, and no object's batch is stale afterwards.
C21_ListShape ==
    JustRebuilt =>
        /\ ListShape(scene, framebuffers)
        /\ StaleObjects(scene) = {}
        /\ ListUsesGroupPipelines(scene)

\* C21 failing case: the list was just rebuilt with the right shape over two
\* groups, and a batch that was still cached is bound to the pipeline its
\* group had before recreate_pipeline
C21_Witness ==
    /\ JustRebuilt
    /\ ListShape(scene, framebuffers) /\ StaleObjects(scene) = {}
    /\ Cardinality(AllObjects(scene)) = 2
    /\ \E p \in AllObjects(scene) :
        /\ p \notin last.rebuilt.objects
        /\ Unwrap(ObjectAt(scene, p).command_buffer).pipeline # scene.groups[p[1]].pipeline

\* C22: Group::recreate_pipeline and Scene::recreate_pipeline (which forwards
\* to every group) replace pipelines only: the camera, the groups' object
\* mappings, every object's instances and every object's batch cache are as
\* before; Scene::recreate_pipeline leaves the scene's list as it is, and on
\* the path to Group::recreate_pipeline the list changes only by what
\* Scene::get_group does to it.
C22_RecreatePipelineFrame ==
    [][last'.op = "recreate_pipeline" =>
        /\ scene'.camera = scene.camera
        /\ DOMAIN scene'.groups = DOMAIN scene.groups
        /\ \A g \in DOMAIN scene.groups : scene'.groups[g].objects = scene.groups[g].objects
        /\ ValidObjects(scene') = ValidObjects(scene)
        /\ IF last'.target = <<>>
           THEN /\ scene'.command_buffers = scene.command_buffers
                /\ \E vp \in WindowSizes :
                    \A g \in DOMAIN scene.groups : scene'.groups[g].pipeline = CreatePipeline(vp)
           ELSE /\ scene'.command_buffers = SceneGetGroup(scene, last'.target[1]).command_buffers
                /\ \A g \in DOMAIN scene.groups \ {last'.target[1]} :
                    scene'.groups[g].pipeline = scene.groups[g].pipeline
                /\ \A vp \in WindowSizes :
                    GroupRecreatePipeline(scene.groups[last'.target[1]], vp).objects
                        = scene.groups[last'.target[1]].objects]_vars

\* C22 witness: Scene::recreate_pipeline has just replaced the pipelines of
\* two groups for another viewport while the list and the batch of an
\* instanced object were valid, and they still are
C22_Witness ==
    /\ last.op = "recreate_pipeline" /\ last.target = <<>>
    /\ Cardinality(DOMAIN scene.groups) = 2
    /\ IsSome(scene.command_buffers)
    /\ \E p \in ValidObjects(scene) :
        /\ DOMAIN ObjectAt(scene, p).instances # {}
        /\ Unwrap(ObjectAt(scene, p).command_buffer).pipeline # scene.groups[p[1]].pipeline

\* the instance's matrix is the one Instance::update computes from its fields
MatrixConsistent(inst) == inst.model = ModelMatrix(inst.position, inst.angle, inst.scale)

\* C23 as stated: in every state a caller can observe, the model matrix of
\* every instance is the matrix computed from its position, angle and scale,
\* however the fields were written through the handle.
C23_MatrixConsistency ==
    \A inst \in AllInstances(scene) : MatrixConsistent(inst)

\* C23 failing case: the fields of an instance were written through the
\* handle without Instance::update, and Scene::command_buffers has then
\* serialized the instance with the matrix of its earlier field values
C23_Witness ==
    /\ last.op = "command_buffers"
    /\ \E p \in ValidObjects(scene) :
        \E inst \in Values(ObjectAt(scene, p).instances) :
            /\ ~MatrixConsistent(inst)
            /\ inst.position = <<1, 2, 3>> /\ inst.model = Identity4
            /\ inst \in DOMAIN Unwrap(ObjectAt(scene, p).command_buffer).instance_buffer.data

\* the command buffers of a list (None: no list)
CachedListOf(cbs) ==
    IF IsNone(cbs) THEN {} ELSE {Unwrap(cbs)[k] : k \in DOMAIN Unwrap(cbs)}

\* C29 as stated: in every state each object whose batch cache is valid had
\* the batch recorded with the pipeline its group has now, and the list that
\* Scene::command_buffers returns, rebuilt or cached, holds no batch bound to
\* another pipeline than its group's current one.
C29_PipelineConsistency ==
    /\ [](\A p \in ValidObjects(scene) :
            Unwrap(ObjectAt(scene, p).command_buffer).pipeline = scene.groups[p[1]].pipeline)
    /\ [][(last'.op = "command_buffers" /\ ~panicked') =>
            \A cb \in CachedListOf(last'.ret) :
                \A g \in DOMAIN cb.secondary : \A o \in DOMAIN cb.secondary[g] :
                    cb.secondary[g][o].pipeline = scene'.groups[g].pipeline]_vars

\* C29 failing case: Scene::recreate_pipeline has just replaced the pipelines
\* for another viewport; the object's batch and the scene's list are still
\* valid and bound to the pipeline that was replaced
C29_Witness ==
    /\ last.op = "recreate_pipeline" /\ last.target = <<>>
    /\ IsSome(scene.command_buffers)
    /\ \E p \in ValidObjects(scene) :
        /\ Unwrap(ObjectAt(scene, p).command_buffer).pipeline # scene.groups[p[1]].pipeline
        /\ \A cb \in CachedListOf(scene.command_buffers) :
            cb.secondary[p[1]][p[2]].pipeline # scene.groups[p[1]].pipeline

----------------------------------------------------------------------------
(* Properties of the frame loop, checked under EngineSpec *)

\* the step is a loop iteration that submitted work
SubmittingTick == events' # events /\ tick'.outcome = "submitted"

\* C9: with N presentation targets, never more than N submissions have an
\* unresolved completion fence; the fence table has exactly one slot per
\* target index, and a slot holds at most one outstanding fence (every
\* unresolved fence is the one its image's slot holds).
C9_BoundedInFlight ==
    /\ DOMAIN fences = 0..(NumTargets - 1)
    /\ DOMAIN fences = DOMAIN framebuffers
    /\ \A i \in DOMAIN fences : Len(fences[i]) <= 1
    /\ Cardinality(in_flight) <= NumTargets
    /\ Cardinality({w.fence : w \in in_flight}) = Cardinality(in_flight)
    /\ \A w \in in_flight : fences[w.image_i] = Some(w.fence)

\* C9 witness: a tick has just submitted and every target has work in flight
C9_Witness ==
    /\ tick.outcome = "submitted"
    /\ Cardinality(in_flight) = NumTargets
    /\ \A i \in DOMAIN fences : \E w \in in_flight : fences[i] = Some(w.fence)

\* C10: a tick that submits work for image i has first waited on the fence
\* that an earlier tick stored in slot i, so that fence's work is complete, and
\* the new work waits for this tick's acquisition of i; a slot is overwritten
\* only by a tick that acquired its index and after its previous fence was
\* waited on; no two submissions for the same image are in flight together.
C10_PerTargetOrdering ==
    /\ [](\A w, v \in in_flight : w.image_i = v.image_i => w = v)
    /\ [][SubmittingTick =>
            LET i == Unwrap(tick'.image_i)
            IN  /\ tick'.waited = fences[i]
                /\ \A w \in in_flight' : w.fence \notin Iter(fences[i])
                /\ \E w \in in_flight' \ in_flight :
                    /\ w.image_i = i
                    /\ fences'[i] = Some(w.fence)
                    /\ w.wait_for.acquire = Some([swapchain |-> swapchain'.id, image_i |-> i])
                    /\ w.present = [swapchain |-> swapchain'.id, index |-> i]
                    /\ in_flight' \ in_flight = {w}]_vars
    /\ [][\A i \in DOMAIN fences :
            (~panicked' /\ ~exited' /\ fences'[i] # fences[i]) =>
                /\ tick'.image_i = Some(i)
                /\ tick'.waited = fences[i]
                /\ \A w \in in_flight' : w.fence \notin Iter(fences[i])]_vars

\* C10 witness: a tick has just submitted for an image whose earlier fence
\* had not signalled when the tick began to wait on it
C10_Witness ==
    /\ tick.outcome = "submitted"
    /\ IsSome(tick.waited) /\ tick.blocked
    /\ \E w \in in_flight : tick.image_i = Some(w.image_i) /\ tick.waited # Some(w.fence)

\* the step is a loop iteration that acquired an image and went on to the
\* submission (engine.rs:162-195), whether or not the flush succeeded
ReachedSubmission ==
    /\ events' # events
    /\ tick'.outcome \in {"submitted", "flush_out_of_date", "flush_error"}

\* C11: in every tick that reaches submission, the submitted work is chained
\* after the fence held in slot previous_fence_i (nothing to wait for when the
\* slot is empty) joined with this tick's acquisition, the presentation of
\* the acquired index is requested by that same chain, after the work, and
\* previous_fence_i becomes the acquired index.
C11_SubmissionChaining ==
    /\ [][SubmittingTick =>
            \E w \in in_flight' \ in_flight :
                /\ in_flight' \ in_flight = {w}
                /\ w.wait_for = [previous |-> fences[previous_fence_i],
                                 acquire |-> Some([swapchain |-> swapchain'.id,
                                                   image_i |-> Unwrap(tick'.image_i)])]
                /\ w.command_buffer = Unwrap(scene'.command_buffers)[Unwrap(tick'.image_i)]
                /\ w.present = [swapchain |-> swapchain'.id, index |-> Unwrap(tick'.image_i)]
                /\ fences'[Unwrap(tick'.image_i)] = Some(w.fence)]_vars
    /\ [][ReachedSubmission => previous_fence_i' = Unwrap(tick'.image_i)]_vars
    /\ [][(~panicked' /\ ~exited' /\ previous_fence_i' # previous_fence_i) =>
            ReachedSubmission]_vars

\* C11 witness: a tick has just submitted work chained after the unresolved
\* fence of the other image, which the tick before it stored
C11_Witness ==
    /\ tick.outcome = "submitted"
    /\ \E w, v \in in_flight :
        /\ tick.image_i = Some(w.image_i)
        /\ previous_fence_i = w.image_i
        /\ fences[w.image_i] = Some(w.fence)
        /\ v.image_i # w.image_i
        /\ w.wait_for.previous = Some(v.fence)

\* the step is a loop iteration whose acquisition reported out-of-date
AcquireOutOfDateTick == events' # events /\ tick'.outcome = "acquire_out_of_date"

\* the step is a MainEventsCleared iteration that began with a pending
\* request to recreate the swapchain
PendingTick ==
    /\ events' # events /\ tick'.event = "main"
    /\ (window_resized \/ recreate_swapchain)

\* the iteration called swapchain.recreate before anything else: it either
\* replaced the swapchain, was skipped for an unsupported extent, or died
AttemptedRebuild ==
    \/ tick'.recreated /\ swapchain'.id # swapchain.id
    \/ tick'.outcome = "extent_not_supported" /\ IsNone(tick'.image_i)
    \/ panicked'

\* C12: when acquire_next_image reports out-of-date the tick sets
\* recreate_swapchain and ends without a panic, without waiting on a fence and
\* without submitting or presenting; the fence table, previous_fence_i and the
\* work in flight are unchanged, the scene's list is not rebuilt (the scene is
\* as the handler, and the resize handling if any, left it); recreate_swapchain
\* stays set until a MainEventsCleared iteration, and that iteration calls
\* swapchain.recreate before it acquires.
C12_AcquireOutOfDate ==
    /\ [](tick.outcome = "acquire_out_of_date" =>
            /\ recreate_swapchain /\ ~panicked /\ ~exited
            /\ IsNone(tick.image_i) /\ IsNone(tick.waited) /\ ~tick.blocked)
    /\ [][AcquireOutOfDateTick =>
            /\ fences' = fences
            /\ previous_fence_i' = previous_fence_i
            /\ in_flight' = in_flight
            /\ IsSome(scene'.command_buffers) => scene'.command_buffers = scene.command_buffers
            /\ \E h \in Handlers :
                scene' = IF window_resized /\ tick'.recreated
                         THEN Recreated(Frame(h), window_size).scene
                         ELSE Handle(h, scene)]_vars
    /\ [][(recreate_swapchain /\ ~recreate_swapchain' /\ ~exited') => PendingTick]_vars
    /\ [][PendingTick => AttemptedRebuild]_vars

\* C12 witness: with work in flight and a valid list, an acquisition has just
\* reported out-of-date and list, fences and work are all still there
C12_Witness ==
    /\ tick.outcome = "acquire_out_of_date" /\ ~tick.recreated
    /\ IsSome(scene.command_buffers)
    /\ in_flight # {}
    /\ \E i \in DOMAIN fences : IsSome(fences[i])
    /\ recreate_swapchain

\* the step is a loop iteration skipped because swapchain.recreate reported
\* an unsupported extent
ExtentNotSupportedTick == events' # events /\ tick'.outcome = "extent_not_supported"

\* C13: when swapchain.recreate reports an unsupported extent the tick is
\* skipped without a panic: nothing is acquired, waited on, submitted or
\* presented, and the swapchain, the framebuffers, the viewport, the fence
\* table, previous_fence_i and the work in flight are unchanged; the scene
\* (camera configuration and cached list included) is exactly what the update
\* handler left, and the list is not rebuilt.
C13_ExtentNotSupported ==
    /\ [](tick.outcome = "extent_not_supported" =>
            /\ ~panicked /\ ~exited /\ ~tick.recreated
            /\ IsNone(tick.image_i) /\ IsNone(tick.waited) /\ ~tick.blocked)
    /\ [][ExtentNotSupportedTick =>
            /\ window_resized \/ recreate_swapchain
            /\ swapchain' = swapchain
            /\ framebuffers' = framebuffers
            /\ viewport' = viewport
            /\ fences' = fences
            /\ previous_fence_i' = previous_fence_i
            /\ in_flight' = in_flight
            /\ IsSome(scene'.command_buffers) => scene'.command_buffers = scene.command_buffers
            /\ \E h \in Handlers :
                /\ scene' = Handle(h, scene)
                /\ h = "idle" => scene'.camera.configuration = scene.camera.configuration]_vars

\* C13 witness: after a window resize the rebuild has just reported an
\* unsupported extent; the swapchain still has the old extent, the viewport
\* and the valid list are the old ones and work is still in flight
C13_Witness ==
    /\ tick.outcome = "extent_not_supported"
    /\ window_resized /\ swapchain.extent # window_size
    /\ viewport # window_size
    /\ IsSome(scene.command_buffers)
    /\ in_flight # {}

\* C14 as stated: after a tick skipped for an unsupported extent a request to
\* recreate the swapchain is still pending, whichever flag had triggered the
\* rebuild, and the very next MainEventsCleared iteration calls
\* swapchain.recreate again before it acquires.
C14_RetryEveryTick ==
    /\ [](tick.outcome = "extent_not_supported" =>
            (window_resized \/ recreate_swapchain))
    /\ [][(tick.outcome = "extent_not_supported"
           /\ events' # events /\ tick'.event = "main") => AttemptedRebuild]_vars

\* C14 failing case: the rebuild was requested by recreate_swapchain alone
\* (out-of-date or suboptimal, no window resize); after the skipped tick no
\* flag is set, so the next iteration goes straight to acquire_next_image
C14_Witness ==
    /\ tick.outcome = "extent_not_supported"
    /\ ~window_resized /\ ~recreate_swapchain
    /\ ~panicked /\ ~exited /\ events < MaxEvents

\* C15: when then_signal_fence_and_flush reports out-of-date the tick sets
\* recreate_swapchain instead of panicking, leaves the slot of the acquired
\* index empty and no work of this tick in flight, and records the index in
\* previous_fence_i; the loop goes on, recreate_swapchain stays set until the
\* next MainEventsCleared iteration, and that iteration calls
\* swapchain.recreate before it acquires.
C15_FlushOutOfDate ==
    /\ [](tick.outcome = "flush_out_of_date" =>
            /\ ~panicked /\ ~exited
            /\ recreate_swapchain
            /\ IsSome(tick.image_i)
            /\ fences[Unwrap(tick.image_i)] = None
            /\ previous_fence_i = Unwrap(tick.image_i)
            /\ \A w \in in_flight : w.image_i # Unwrap(tick.image_i))
    /\ [][(events' # events /\ tick'.outcome = "flush_out_of_date") =>
            /\ in_flight' \subseteq in_flight
            /\ \A i \in DOMAIN fences \ {Unwrap(tick'.image_i)} : fences'[i] = fences[i]]_vars
    /\ [][(tick.outcome = "flush_out_of_date" /\ events' # events /\ ~exited') =>
            IF tick'.event = "main" THEN AttemptedRebuild ELSE recreate_swapchain']_vars

\* C15 witness: a flush has just reported out-of-date for an index whose slot
\* held a fence before the tick, while work for the other index is in flight
C15_Witness ==
    /\ tick.outcome = "flush_out_of_date"
    /\ IsSome(tick.waited)
    /\ fences[Unwrap(tick.image_i)] = None
    /\ in_flight # {}
    /\ events < MaxEvents

\* C16 as stated: a tick in which the backend failed with anything but
\* out-of-date or unsupported extent (in swapchain.recreate, in
\* acquire_next_image, in the fence wait, in then_execute or in
\* then_signal_fence_and_flush) ends the loop, and no event is handled after it.
C16_OtherFailuresFatal ==
    /\ [](tick.outcome \in {"panic", "flush_error"} => panicked)
    /\ [][tick.outcome \in {"panic", "flush_error"} => events' = events]_vars

\* C16 failing case: then_signal_fence_and_flush has just failed with an
\* error other than out-of-date; the loop is alive, the slot of the acquired
\* index is empty and the failure asked for no rebuild
C16_Witness ==
    /\ tick.outcome = "flush_error"
    /\ ~panicked /\ ~exited /\ events < MaxEvents
    /\ fences[Unwrap(tick.image_i)] = None
    /\ ~recreate_swapchain

\* the step is a loop iteration that replaced the swapchain while a window
\* resize was pending
ResizedRebuildTick ==
    /\ events' # events /\ tick'.event = "main" /\ ~panicked'
    /\ window_resized /\ tick'.recreated

\* the batches of every object that a primary command buffer executes were
\* recorded with the pipeline built for viewport vp
UsesPipelinesFor(cb, vp) ==
    \A b \in PrimaryBatches(cb) : b.pipeline = CreatePipeline(vp)

C18_WholesaleRebuild ==
    [][ResizedRebuildTick =>
        /\ \A i \in DOMAIN images' :
            /\ images'[i].swapchain = swapchain'.id
            /\ images'[i].extent = swapchain'.extent
        /\ \A i \in DOMAIN framebuffers' :
            /\ framebuffers'[i].swapchain = swapchain'.id
            /\ framebuffers'[i].extent = swapchain'.extent
            /\ framebuffers'[i].depth.extent = swapchain'.extent
        /\ depth_buffer'.extent = swapchain'.extent]_vars

\* C18 failing case: the window was resized and the swapchain rebuilt; the
\* framebuffers show the images of the new swapchain, but their depth
\* attachment is the depth buffer of the first extent and Engine.images still
\* holds the images of the first swapchain
C18_Witness ==
    /\ tick.event = "main" /\ tick.recreated /\ ~window_resized /\ ~panicked
    /\ swapchain.extent = window_size /\ viewport = window_size
    /\ \A i \in DOMAIN framebuffers :
        /\ framebuffers[i].swapchain = swapchain.id
        /\ framebuffers[i].extent = swapchain.extent
        /\ framebuffers[i].depth.extent # swapchain.extent
    /\ depth_buffer.extent # swapchain.extent
    /\ \A i \in DOMAIN images :
        images[i].swapchain # swapchain.id /\ images[i].extent # swapchain.extent

StillInFlight == in_flight \cap in_flight'
\* the camera sub-buffers, and the sub-buffers of the instance pool of object
\* p, that the command buffers cbs read
CameraBuffersOf(cbs) ==
    {b.camera_buffer : b \in UNION {PrimaryBatches(cb) : cb \in cbs}}
InstanceBuffersOf(cbs, p) ==
    {cb.secondary[p[1]][p[2]].instance_buffer :
        cb \in {v \in cbs : /\ p[1] \in DOMAIN v.secondary
                            /\ p[2] \in DOMAIN v.secondary[p[1]]}}
\* the command buffers the scene's cached list holds
CachedList(s) == CachedListOf(s.command_buffers)
\* no two of the sub-buffers are one sub-buffer with two contents
OneContent(buffers) == \A a, b \in buffers : a.id = b.id => a = b

\* C26: every rebuild of the camera payload and of an object's per-instance
\* data takes a sub-buffer of its pool that no submitted work with an unfired
\* fence reads; in every state a sub-buffer that submitted work reads has the
\* content it was submitted with, whoever else refers to it, also when the
\* scene is changed and rebuilt on every tick.
C26_NoOverwriteInFlight ==
    /\ [][(~panicked' /\ ~exited' /\ events' = events + 1
                /\ last'.op = "command_buffers") =>
            /\ last'.rebuilt.camera =>
                    \A b \in CameraBuffersOf({w.command_buffer : w \in StillInFlight}) :
                        b.id # Unwrap(scene'.camera.subbuffer).id
            /\ \A p \in last'.rebuilt.objects :
                    \A b \in InstanceBuffersOf({w.command_buffer : w \in StillInFlight}, p) :
                        b.id # Unwrap(ObjectAt(scene', p).command_buffer).instance_buffer.id
          ]_vars
    /\ [](/\ OneContent(CameraBuffersOf(Held \cup CachedList(scene))
                            \cup {b.camera_buffer : b \in SceneBatches(scene)}
                            \cup Iter(scene.camera.subbuffer))
          /\ \A p \in AllObjects(scene) :
                OneContent(InstanceBuffersOf(Held \cup CachedList(scene), p)
                            \cup {b.instance_buffer : b \in Iter(ObjectAt(scene, p).command_buffer)}))

\* C26 witness: the scene was changed and rebuilt on this tick while the work
\* of the tick before, built from another camera payload and other instance
\* data, is still in flight
C26_Witness ==
    /\ ~panicked /\ ~exited
    /\ last.op = "command_buffers" /\ last.rebuilt.camera /\ last.rebuilt.objects # {}
    /\ tick.outcome = "submitted"
    /\ \E w \in in_flight :
        /\ w.command_buffer \notin CachedList(scene)
        /\ \A b \in PrimaryBatches(w.command_buffer) :
            /\ b.camera_buffer.id # Unwrap(scene.camera.subbuffer).id
            /\ b.camera_buffer.data # Unwrap(scene.camera.subbuffer).data
        /\ \E p \in last.rebuilt.objects :
            \A b \in InstanceBuffersOf({w.command_buffer}, p) :
                b # Unwrap(ObjectAt(scene, p).command_buffer).instance_buffer

\* C28 as stated: the list a tick hands to the queue was built against the
\* framebuffers of the current target set: in every tick that reaches the
\* submission, each command buffer of the list Scene::command_buffers returned
\* renders into the framebuffer Engine.framebuffers holds at its index.
C28_ListForCurrentTargets ==
    [][(ReachedSubmission /\ ~panicked' /\ ~exited') =>
        \A i \in DOMAIN framebuffers' :
            Unwrap(scene'.command_buffers)[i].framebuffer = framebuffers'[i]]_vars

\* C28 failing case: the tick replaced the swapchain and its framebuffers
\* without a pending resize, the scene's cached list was returned as it was,
\* and the work it submitted renders into a framebuffer of an earlier
\* swapchain
C28_Witness ==
    /\ ~panicked /\ ~exited
    /\ tick.outcome = "submitted" /\ tick.recreated
    /\ last.op = "command_buffers" /\ ~last.rebuilt.scene
    /\ \A i \in DOMAIN framebuffers : framebuffers[i].swapchain = swapchain.id
    /\ \E w \in in_flight :
        /\ w.image_i = Unwrap(tick.image_i)
        /\ w.fence = Unwrap(fences[w.image_i])
        /\ w.present.swapchain = swapchain.id
        /\ w.command_buffer.framebuffer.swapchain # swapchain.id

\* every object's instances
InstancesOf(s) == [p \in AllObjects(s) |-> ObjectAt(s, p).instances]

\* the command buffer draws the scene as it is: one batch per object of every
\* group, with the object's instances as they are and the camera's payload
\* computed from the configuration as it is
Reflects(cb, s) ==
    /\ DOMAIN cb.secondary = DOMAIN s.groups
    /\ \E payload \in {CameraDataNew(s.camera.configuration)} :
        \A g \in DOMAIN s.groups :
            /\ DOMAIN cb.secondary[g] = DOMAIN s.groups[g].objects
            /\ \A o \in DOMAIN s.groups[g].objects :
                /\ cb.secondary[g][o].instance_buffer.data
                        = InstanceData(s.groups[g].objects[o].instances)
                /\ cb.secondary[g][o].instance_count
                        = Cardinality(DOMAIN s.groups[g].objects[o].instances)
                /\ cb.secondary[g][o].camera_buffer.data = payload

\* C32: in a tick that reaches the submission the handler has run before the
\* list is pulled, and the list is pulled once: what the handler did to the
\* instances is in the scene, every command buffer of the list the pull
\* returned executes the same batches and draws the scene as the handler (in this tick and all earlier
\* ones) left it, a tick whose handler changed instances or camera rebuilds
\* the list instead of returning the one cached before, and a submitting tick
\* submits one piece of work, the entry of that list at the acquired index.
C32_HandlerBeforePull ==
    [][(ReachedSubmission /\ ~panicked' /\ ~exited') =>
        /\ last'.op = "command_buffers"
        /\ IsSome(last'.ret) /\ last'.ret = scene'.command_buffers
        /\ \E h \in Handlers : \E t \in {Handle(h, scene)} : InstancesOf(scene') = InstancesOf(t)
        /\ Reflects(Unwrap(last'.ret)[0], scene')
        /\ \A cb \in CachedListOf(last'.ret) : cb.secondary = Unwrap(last'.ret)[0].secondary
        /\ (\/ InstancesOf(scene') # InstancesOf(scene)
            \/ scene'.camera.configuration # scene.camera.configuration) =>
                /\ last'.rebuilt.scene
                /\ scene'.command_buffers # scene.command_buffers
        /\ SubmittingTick =>
            \E w \in in_flight' :
                /\ in_flight' \ in_flight = {w}
                /\ w.command_buffer = Unwrap(last'.ret)[Unwrap(tick'.image_i)]]_vars

\* C32 witness: two ticks in a row submitted work and the handler changed the
\* scene in the second; its work draws the scene as it is now, the work of the
\* first, still in flight, does not
C32_Witness ==
    /\ ~panicked /\ ~exited
    /\ tick.outcome = "submitted" /\ last.op = "command_buffers"
    /\ last.runs = <<1, 1>> /\ last.rebuilt.objects # {}
    /\ \E v, w \in in_flight :
        /\ w.fence = Unwrap(fences[Unwrap(tick.image_i)])
        /\ Reflects(w.command_buffer, scene)
        /\ ~Reflects(v.command_buffer, scene)

\* the step is a loop iteration whose acquisition succeeded and was reported
\* suboptimal
SuboptimalTick == events' # events /\ tick'.suboptimal

\* C33: a tick whose acquisition succeeds and is reported suboptimal goes on
\* as any other: it waits on the fence of the acquired index, and when the
\* flush succeeds its work is in flight under the fence stored in that slot,
\* with the presentation of the acquired index on the current swapchain; it
\* sets recreate_swapchain, the flag stays set over every other event, and the
\* next MainEventsCleared iteration calls swapchain.recreate before it
\* acquires.
C33_SuboptimalAcquisition ==
    /\ []((tick.suboptimal /\ tick.outcome = "submitted") =>
            /\ ~panicked /\ ~exited
            /\ recreate_swapchain
            /\ IsSome(tick.image_i)
            /\ previous_fence_i = Unwrap(tick.image_i)
            /\ IsSome(fences[Unwrap(tick.image_i)]))
    /\ [][(SuboptimalTick /\ tick'.outcome = "submitted") =>
            \E w \in in_flight' \ in_flight :
                /\ w.fence = Unwrap(fences'[Unwrap(tick'.image_i)])
                /\ w.image_i = Unwrap(tick'.image_i)
                /\ w.command_buffer = Unwrap(scene'.command_buffers)[w.image_i]
                /\ w.present = [swapchain |-> swapchain'.id, index |-> w.image_i]]_vars
    /\ [][SuboptimalTick =>
            /\ ~panicked' /\ ~exited'
            /\ tick'.outcome \in {"submitted", "flush_out_of_date", "flush_error"}
            /\ recreate_swapchain'
            /\ tick'.waited = fences[Unwrap(tick'.image_i)]
            /\ \A f \in Iter(tick'.waited) : \A w \in in_flight' : w.fence # f]_vars
    /\ [][(recreate_swapchain /\ events' # events /\ ~exited') =>
            IF tick'.event = "main" THEN AttemptedRebuild ELSE recreate_swapchain']_vars

\* C33 witness: a tick acquired an index whose slot held a fence, was told
\* the swapchain is suboptimal, waited, submitted and stored the new fence;
\* recreate_swapchain is set and the loop goes on
C33_Witness ==
    /\ tick.suboptimal /\ tick.outcome = "submitted"
    /\ IsSome(tick.waited) /\ ~tick.recreated
    /\ recreate_swapchain /\ ~window_resized
    /\ IsSome(fences[Unwrap(tick.image_i)])
    /\ events < MaxEvents

====
